---- MODULE Spec2Model ----
(***************************************************************************)
(* Model of core/translate/update.rs: prepare_update_plan, the builder     *)
(* that turns a parsed UPDATE statement into an UpdatePlan, and the        *)
(* row-at-a-time program of the translate_update doc comment.              *)
(*                                                                         *)
(* Option<T> is a sequence of length 0 (None) or 1 (Some).  Strings whose  *)
(* case matters are sequences of one-character strings.  Indices into      *)
(* Rust vectors are 0-based in the plan, as in the source.                 *)
(***************************************************************************)
EXTENDS Integers, Sequences, FiniteSets, TLC

VARIABLES
    schema,            \* &Schema: the set of catalogued tables
    body,              \* &mut Update: the statement, mutated in place
    body0,             \* the statement as the caller passed it
    pc,                \* position inside prepare_update_plan
    table,             \* local `table` (Option while the lookup is pending)
    iter_dir,          \* local `iter_dir`
    table_references,  \* local `table_references`
    set_clauses,       \* the Vec<(usize, Expr)> being collected
    result_columns,    \* local `result_columns`
    order_by,          \* local `order_by`
    where_clause,      \* local `where_clause`
    limit,             \* local `(limit, offset)`
    idx,               \* position of the running iterator (sets / returning)
    result,            \* the value prepare_update_plan returns
    rows,              \* the B-tree of table t: rows in key order
    rows0,             \* the rows before the program ran
    addr,              \* the program counter of the running program
    reg,               \* its registers r[1..7]
    cursor,            \* position of cursor 0 in rows, 0 when not on a row
    halted             \* the program has executed Halt

pvars == <<schema, body, body0, pc, table, iter_dir, table_references,
           set_clauses, result_columns, order_by, where_clause, limit, idx,
           result>>
xvars == <<rows, rows0, addr, reg, cursor, halted>>
vars == <<pvars, xvars>>

----------------------------------------------------------------------------
(* Bounds of the explored statements *)

MaxSets == 2
MaxReturning == 2
MaxOrderBy == 2
MaxRows == 2

----------------------------------------------------------------------------
(* Option and sequence helpers *)

None == <<>>
Some(x) == <<x>>
IsSome(o) == Len(o) = 1
Unwrap(o) == o[1]

SeqsBetween(S, lo, hi) == UNION {[1..k -> S] : k \in lo..hi}

----------------------------------------------------------------------------
(* Identifiers *)

Lower(c) ==
    CASE c = "A" -> "a"
      [] c = "B" -> "b"
      [] c = "T" -> "t"
      [] OTHER -> c

ToLower(s) == [k \in 1..Len(s) |-> Lower(s[k])]

\* str::eq_ignore_ascii_case
eq_ignore_ascii_case(s, t) ==
    /\ Len(s) = Len(t)
    /\ \A k \in 1..Len(s) : Lower(s[k]) = Lower(t[k])

\* util::normalize_ident: strip one pair of surrounding quotes, lower-case
normalize_ident(s) ==
    LET quoted == /\ Len(s) >= 2
                  /\ \/ s[1] = "\"" /\ s[Len(s)] = "\""
                     \/ s[1] = "[" /\ s[Len(s)] = "]"
    IN  ToLower(IF quoted THEN SubSeq(s, 2, Len(s) - 1) ELSE s)

----------------------------------------------------------------------------
(* Expressions (ast::Expr) *)

Lit(v) == [kind |-> "Literal", name |-> <<>>, n |-> v, args |-> <<>>]
Id(nm) == [kind |-> "Id", name |-> nm, n |-> 0, args |-> <<>>]
Column(i) == [kind |-> "Column", name |-> <<>>, n |-> i, args |-> <<>>]
And(l, r) == [kind |-> "And", name |-> <<>>, n |-> 0, args |-> <<l, r>>]

----------------------------------------------------------------------------
(* Errors (LimboError::ParseError) *)

ParseError(text, args) == [text |-> text, args |-> args]

ErrWith == ParseError("WITH clause is not supported", <<>>)
ErrOrConflict == ParseError("ON CONFLICT clause is not supported", <<>>)
ErrNoSuchTable(t) == ParseError("Parse error: no such table: {}", <<t>>)
ErrNotBtree(t) == ParseError("Error: {} is not a btree table", <<t>>)
ErrColumnNotFound(c, t) ==
    ParseError("column '{}' not found in table '{}'", <<c, t>>)
ErrOnlyExpressions ==
    ParseError("Only expressions are allowed in RETURNING clause", <<>>)
ErrBind(nm) == ParseError("Column {} not found", <<nm>>)
ErrLimit == ParseError("Invalid LIMIT clause", <<>>)
ErrOffset == ParseError("Invalid OFFSET clause", <<>>)

Running == [tag |-> "Running", plan |-> None, err |-> None]
Ok(p) == [tag |-> "Ok", plan |-> Some(p), err |-> None]
Err(e) == [tag |-> "Err", plan |-> None, err |-> Some(e)]

----------------------------------------------------------------------------
(* Collaborators: catalog, binder, WHERE and LIMIT parsers *)

\* Schema::get_table: lookup by normalized name
get_table(sch, nm) ==
    LET hits == {t \in sch : t.name = normalize_ident(nm)}
    IN  IF hits = {} THEN None ELSE Some(CHOOSE t \in hits : TRUE)

\* Table::btree: Some only for the B-tree variant
btree(t) == IF t.kind = "BTree" THEN Some(t) ELSE None

\* FindColumn keeping the last match instead of the first
FindColumnLast(columns, ident) ==
    LET hits == {k \in 1..Len(columns) :
                    /\ IsSome(columns[k])
                    /\ eq_ignore_ascii_case(Unwrap(columns[k]), ident)}
    IN  IF hits = {} THEN None
        ELSE Some((CHOOSE k \in hits : \A m \in hits : k >= m) - 1)

\* find_map over columns().iter().enumerate(): the 0-based index of the
\* first column whose name is present and matches ident ignoring case
FindColumn(columns, ident) ==
    LET hits == {k \in 1..Len(columns) :
                    /\ IsSome(columns[k])
                    /\ eq_ignore_ascii_case(Unwrap(columns[k]), ident)}
    IN  IF hits = {} THEN None
        ELSE Some((CHOOSE k \in hits : \A m \in hits : k <= m) - 1)

\* the binder's own column lookup in the single table in scope
BinderColumn(columns, ident) ==
    LET hits == {k \in 1..Len(columns) :
                    /\ IsSome(columns[k])
                    /\ eq_ignore_ascii_case(Unwrap(columns[k]), ident)}
    IN  IF hits = {} THEN None
        ELSE Some((CHOOSE k \in hits : \A m \in hits : k <= m) - 1)

\* the result column an identifier names by alias, if any
FindAlias(rcs, ident) ==
    LET hits == {k \in 1..Len(rcs) :
                    /\ IsSome(rcs[k].alias)
                    /\ Unwrap(rcs[k].alias) = ident}
    IN  IF hits = {} THEN None
        ELSE Some(rcs[CHOOSE k \in hits : \A m \in hits : k <= m].expr)

\* planner::bind_column_references: resolves identifiers in place, left to
\* right; on failure the part already rewritten stays rewritten
RECURSIVE Bind(_, _, _)
Bind(e, trefs, rcs) ==
    CASE e.kind = "Id" ->
            LET ident == normalize_ident(e.name)
                col == BinderColumn(trefs[1].table.columns, ident)
                al == IF IsSome(rcs) THEN FindAlias(Unwrap(rcs), ident)
                      ELSE None
            IN  IF IsSome(col)
                THEN [ok |-> TRUE, expr |-> Column(Unwrap(col)), err |-> None]
                ELSE IF IsSome(al)
                THEN [ok |-> TRUE, expr |-> Unwrap(al), err |-> None]
                ELSE [ok |-> FALSE, expr |-> e, err |-> Some(ErrBind(e.name))]
      [] e.kind = "And" ->
            LET l == Bind(e.args[1], trefs, rcs)
                r == Bind(e.args[2], trefs, rcs)
            IN  IF ~l.ok
                THEN [ok |-> FALSE, expr |-> And(l.expr, e.args[2]),
                      err |-> l.err]
                ELSE [ok |-> r.ok, expr |-> And(l.expr, r.expr),
                      err |-> r.err]
      [] OTHER -> [ok |-> TRUE, expr |-> e, err |-> None]

\* break_predicate_at_and_boundaries
RECURSIVE Conjuncts(_)
Conjuncts(e) ==
    IF e.kind = "And"
    THEN Conjuncts(e.args[1]) \o Conjuncts(e.args[2])
    ELSE <<e>>

\* binds the conjuncts in order and stops at the first failure
RECURSIVE BindAll(_, _, _)
BindAll(es, trefs, rcs) ==
    IF es = <<>> THEN [ok |-> TRUE, exprs |-> <<>>, err |-> None]
    ELSE LET h == Bind(Head(es), trefs, rcs)
             t == BindAll(Tail(es), trefs, rcs)
         IN  IF ~h.ok THEN [ok |-> FALSE, exprs |-> <<>>, err |-> h.err]
             ELSE IF ~t.ok THEN t
             ELSE [ok |-> TRUE, exprs |-> <<h.expr>> \o t.exprs,
                   err |-> None]

\* planner::parse_where on an owned expression
parse_where(w, trefs, rcs) ==
    IF IsSome(w) THEN BindAll(Conjuncts(Unwrap(w)), trefs, rcs)
    ELSE [ok |-> TRUE, exprs |-> <<>>, err |-> None]

\* planner::parse_limit
parse_limit(l) ==
    LET off == IF IsSome(l.offset) THEN Some(Unwrap(l.offset).n) ELSE None
    IN  IF IsSome(l.offset) /\ Unwrap(l.offset).kind # "Literal"
        THEN [ok |-> FALSE, limit |-> None, offset |-> None,
              err |-> Some(ErrOffset)]
        ELSE IF l.expr.kind # "Literal"
        THEN [ok |-> FALSE, limit |-> None, offset |-> None,
              err |-> Some(ErrLimit)]
        ELSE [ok |-> TRUE, limit |-> Some(l.expr.n), offset |-> off,
              err |-> None]

----------------------------------------------------------------------------
(* The statements and catalogs explored *)

NameA == <<"a">>
NameB == <<"b">>
NameT == <<"t">>

\* declared column lists of table t: the table of the doc comment, and one
\* with mixed case and two names equal up to case
ColumnLists ==
    { <<Some(NameA), Some(NameB), Some(<<"c">>)>>,
      <<Some(<<"B">>), Some(NameA), Some(NameB)>> }

SchemaWith(cols) ==
    { [kind |-> "BTree", name |-> NameT, columns |-> cols],
      [kind |-> "Virtual", name |-> <<"v">>, columns |-> <<Some(NameA)>>] }

Schemas == {SchemaWith(cols) : cols \in ColumnLists}

TableNames == {NameT, <<"T">>, <<"v">>, <<"x">>}

Assignment(names, e) == [col_names |-> names, expr |-> e]
SetTargets == {<<NameA>>, <<<<"B">>>>, <<<<"\"", "a", "\"">>, <<"z">>>>, <<<<"z">>>>}
SetExprs == {Id(NameB), Id(<<"w">>)}
Assignments == {Assignment(n, e) : n \in SetTargets, e \in SetExprs}

Aliased(form, nm) == Some([form |-> form, name |-> nm])
ExprColumn(e, al) == [kind |-> "Expr", expr |-> e, alias |-> al]
Star == [kind |-> "Star", expr |-> Lit(0), alias |-> None]
ResultColumns ==
    { ExprColumn(Id(NameA), None),
      ExprColumn(Id(NameA), Aliased("As", <<"x">>)),
      ExprColumn(Id(<<"B">>), Aliased("Elided", <<"x">>)),
      ExprColumn(Id(<<"q">>), None),
      Star }

SortedColumn(e, o) == [expr |-> e, order |-> o]
OrderTerms == {SortedColumn(Id(<<"y">>), o) :
                  o \in {None, Some("Asc"), Some("Desc")}}

LimitOf(e, off) == [expr |-> e, offset |-> off]

SetsFull == SeqsBetween(Assignments, 1, MaxSets)
SetsCompact == { <<Assignment(<<NameA>>, Id(NameB))>>,
                 <<Assignment(<<<<"z">>>>, Id(NameB))>>,
                 <<Assignment(<<NameA>>, Id(<<"w">>))>> }
SetsMini == { <<Assignment(<<NameA>>, Id(NameB))>> }

ReturningFull ==
    {None} \cup {Some(s) : s \in SeqsBetween(ResultColumns, 1, MaxReturning)}
ReturningCompact ==
    { None,
      Some(<<ExprColumn(Id(NameA), Aliased("As", <<"x">>))>>),
      Some(<<Star>>),
      Some(<<ExprColumn(Id(<<"q">>), None)>>) }
ReturningMini == { None, Some(<<ExprColumn(Id(NameA), Aliased("As", <<"x">>))>>) }

OrderByFull ==
    {None} \cup {Some(s) : s \in SeqsBetween(OrderTerms, 0, MaxOrderBy)}
OrderByCompact == { None, Some(<<SortedColumn(Id(<<"y">>), Some("Desc"))>>) }

WhereFull ==
    { None, Some(Id(NameB)), Some(Id(<<"y">>)), Some(Id(<<"x">>)),
      Some(And(Id(NameA), Id(NameB))), Some(And(Id(NameB), Id(<<"y">>))) }
WhereCompact == { None, Some(Id(NameB)), Some(Id(<<"y">>)) }
WhereMini == { None, Some(Id(NameB)) }

LimitFull ==
    { None, Some(LimitOf(Lit(1), None)), Some(LimitOf(Lit(1), Some(Lit(2)))),
      Some(LimitOf(Id(NameA), None)), Some(LimitOf(Lit(1), Some(Id(NameA)))) }
LimitCompact == { None, Some(LimitOf(Lit(1), None)), Some(LimitOf(Id(NameA), None)) }
LimitMini == { None }

Statements(withs, conflicts, names, sets, wheres, returnings, orders, limits) ==
    [with : withs, or_conflict : conflicts, tbl_name : names, sets : sets,
     where_clause : wheres, returning : returnings, order_by : orders,
     limit : limits]

\* every combination of the rejection points, and each clause in full with
\* the other clauses taken from a small set
Bodies ==
    Statements({None, Some("cte")}, {None, Some("Replace")}, TableNames,
               SetsCompact, WhereCompact, ReturningCompact, OrderByCompact,
               LimitCompact)
    \cup Statements({None}, {None}, {NameT}, SetsFull, WhereCompact,
                    ReturningCompact, {None}, LimitMini)
    \cup Statements({None}, {None}, {NameT}, SetsCompact, WhereFull,
                    ReturningFull, {None}, LimitMini)
    \cup Statements({None}, {None}, {NameT}, SetsMini, WhereMini, ReturningMini,
                    OrderByFull, LimitFull)

----------------------------------------------------------------------------
(* prepare_update_plan *)

Init ==
    /\ schema \in Schemas
    /\ body \in Bodies
    /\ body0 = body
    /\ pc = "with"
    /\ table = None
    /\ iter_dir = "Forwards"
    /\ table_references = <<>>
    /\ set_clauses = <<>>
    /\ result_columns = <<>>
    /\ order_by = None
    /\ where_clause = <<>>
    /\ limit = [limit |-> None, offset |-> None]
    /\ idx = 1
    /\ result = Running
    /\ rows = <<>>
    /\ rows0 = <<>>
    /\ addr = 0
    /\ reg = [k \in 1..7 |-> None]
    /\ cursor = 0
    /\ halted = FALSE

Bail(e) == result' = Err(e) /\ pc' = "done"

\* CheckWith with the WITH test left out
CheckWithOmitted ==
    /\ pc = "with"
    /\ pc' = "or_conflict"
    /\ UNCHANGED <<xvars, schema, body, body0, table, iter_dir, table_references,
                   set_clauses, result_columns, order_by, where_clause,
                   limit, idx, result>>

\* if body.with.is_some() { bail }
CheckWith ==
    /\ pc = "with"
    /\ IF IsSome(body.with)
       THEN Bail(ErrWith)
       ELSE pc' = "or_conflict" /\ UNCHANGED result
    /\ UNCHANGED <<xvars, schema, body, body0, table, iter_dir, table_references,
                   set_clauses, result_columns, order_by, where_clause,
                   limit, idx>>

\* if body.or_conflict.is_some() { bail }
CheckOrConflict ==
    /\ pc = "or_conflict"
    /\ IF IsSome(body.or_conflict)
       THEN Bail(ErrOrConflict)
       ELSE pc' = "get_table" /\ UNCHANGED result
    /\ UNCHANGED <<xvars, schema, body, body0, table, iter_dir, table_references,
                   set_clauses, result_columns, order_by, where_clause,
                   limit, idx>>

\* let table = match schema.get_table(..) { Some(table) => table, None => bail }
LookupTable ==
    /\ pc = "get_table"
    /\ LET found == get_table(schema, body.tbl_name)
       IN  IF IsSome(found)
           THEN table' = found /\ pc' = "btree" /\ UNCHANGED result
           ELSE Bail(ErrNoSuchTable(body.tbl_name)) /\ UNCHANGED table
    /\ UNCHANGED <<xvars, schema, body, body0, iter_dir, table_references,
                   set_clauses, result_columns, order_by, where_clause,
                   limit, idx>>

\* CheckBtree letting every table variant through
CheckBtreeLax ==
    /\ pc = "btree"
    /\ pc' = "iter_dir"
    /\ UNCHANGED <<xvars, schema, body, body0, table, iter_dir, table_references,
                   set_clauses, result_columns, order_by, where_clause,
                   limit, idx, result>>

\* let Some(btree_table) = table.btree() else { bail }
CheckBtree ==
    /\ pc = "btree"
    /\ IF IsSome(btree(Unwrap(table)))
       THEN pc' = "iter_dir" /\ UNCHANGED result
       ELSE Bail(ErrNotBtree(body.tbl_name))
    /\ UNCHANGED <<xvars, schema, body, body0, table, iter_dir, table_references,
                   set_clauses, result_columns, order_by, where_clause,
                   limit, idx>>

\* IterDir reading the last ORDER BY term instead of the first
IterDirLast(ob) ==
    IF IsSome(ob) /\ Len(Unwrap(ob)) > 0
       /\ IsSome(Unwrap(ob)[Len(Unwrap(ob))].order)
    THEN IF Unwrap(Unwrap(ob)[Len(Unwrap(ob))].order) = "Asc"
         THEN "Forwards" ELSE "Backwards"
    ELSE "Forwards"

\* the direction of the first ORDER BY term, Forwards by default
IterDir(ob) ==
    IF IsSome(ob) /\ Len(Unwrap(ob)) > 0 /\ IsSome(Unwrap(ob)[1].order)
    THEN IF Unwrap(Unwrap(ob)[1].order) = "Asc" THEN "Forwards"
         ELSE "Backwards"
    ELSE "Forwards"

ScanDirection ==
    /\ pc = "iter_dir"
    /\ iter_dir' = IterDir(body.order_by)
    /\ pc' = "table_references"
    /\ UNCHANGED <<xvars, schema, body, body0, table, table_references, set_clauses,
                   result_columns, order_by, where_clause, limit, idx,
                   result>>

\* match table.as_ref() { Virtual => Virtual, BTree => BTree, _ => unreachable }
TableVariant(tbl) ==
    CASE tbl.kind = "Virtual" -> tbl
      [] tbl.kind = "BTree" -> tbl
      [] OTHER -> [kind |-> "unreachable", name |-> tbl.name,
                   columns |-> <<>>]

TableReference(tbl, identifier, dir) ==
    [table |-> TableVariant(tbl),
     identifier |-> identifier,
     op |-> [kind |-> "Scan", iter_dir |-> dir, index |-> None],
     join_info |-> None]

BuildTableReferences ==
    /\ pc = "table_references"
    /\ table_references' =
          <<TableReference(Unwrap(table), body.tbl_name, iter_dir)>>
    /\ pc' = "sets"
    /\ idx' = 1
    /\ UNCHANGED <<xvars, schema, body, body0, table, iter_dir, set_clauses,
                   result_columns, order_by, where_clause, limit, result>>

\* SetClause with the binder's error propagated (`?` for `let _ =`)
SetClausePropagate(set, tbl, trefs, tbl_name) ==
    LET ident == normalize_ident(set.col_names[1])
        col_index == FindColumn(tbl.columns, ident)
        bound == Bind(set.expr, trefs, None)
    IN  IF ~IsSome(col_index)
        THEN [ok |-> FALSE, expr |-> set.expr, clause |-> None,
              err |-> Some(ErrColumnNotFound(ident, tbl_name))]
        ELSE IF ~bound.ok
        THEN [ok |-> FALSE, expr |-> bound.expr, clause |-> None,
              err |-> bound.err]
        ELSE [ok |-> TRUE, expr |-> bound.expr,
              clause |-> Some([column_index |-> Unwrap(col_index),
                               expr |-> bound.expr]),
              err |-> None]

\* the closure of body.sets.iter_mut().map(..): target lookup, then the
\* binder on the right-hand side with its result dropped (let _ = ..)
SetClause(set, tbl, trefs, tbl_name) ==
    LET ident == normalize_ident(set.col_names[1])
        col_index == FindColumn(tbl.columns, ident)
        bound == Bind(set.expr, trefs, None)
    IN  IF IsSome(col_index)
        THEN [ok |-> TRUE, expr |-> bound.expr,
              clause |-> Some([column_index |-> Unwrap(col_index),
                               expr |-> bound.expr]),
              err |-> None]
        ELSE [ok |-> FALSE, expr |-> set.expr, clause |-> None,
              err |-> Some(ErrColumnNotFound(ident, tbl_name))]

\* SetStep over an eager map: every closure runs before the first error
\* is returned
SetStepEager ==
    /\ pc = "sets"
    /\ idx <= Len(body.sets)
    /\ LET run(k) == SetClause(body.sets[k], Unwrap(table), table_references,
                               body.tbl_name)
           r == run(idx)
       IN  IF r.ok
           THEN /\ body' = [body EXCEPT !.sets[idx].expr = r.expr]
                /\ set_clauses' = Append(set_clauses, Unwrap(r.clause))
                /\ idx' = idx + 1
                /\ UNCHANGED <<pc, result>>
           ELSE /\ body' = [body EXCEPT !.sets =
                               [k \in 1..Len(body.sets) |->
                                   IF k > idx
                                   THEN [@[k] EXCEPT !.expr = run(k).expr]
                                   ELSE @[k]]]
                /\ Bail(Unwrap(r.err))
                /\ UNCHANGED <<set_clauses, idx>>
    /\ UNCHANGED <<xvars, schema, body0, table, iter_dir, table_references,
                   result_columns, order_by, where_clause, limit>>

\* one item pulled through map(..) by collect::<Result<Vec<_>, _>>()
SetStep ==
    /\ pc = "sets"
    /\ idx <= Len(body.sets)
    /\ LET r == SetClause(body.sets[idx], Unwrap(table), table_references,
                          body.tbl_name)
       IN  /\ body' = [body EXCEPT !.sets[idx].expr = r.expr]
           /\ IF r.ok
              THEN /\ set_clauses' = Append(set_clauses, Unwrap(r.clause))
                   /\ idx' = idx + 1
                   /\ UNCHANGED <<pc, result>>
              ELSE /\ Bail(Unwrap(r.err))
                   /\ UNCHANGED <<set_clauses, idx>>
    /\ UNCHANGED <<xvars, schema, body0, table, iter_dir, table_references,
                   result_columns, order_by, where_clause, limit>>

\* the iterator is exhausted: collect returns Ok(vec)
SetsCollected ==
    /\ pc = "sets"
    /\ idx > Len(body.sets)
    /\ pc' = "returning"
    /\ idx' = 1
    /\ UNCHANGED <<xvars, schema, body, body0, table, iter_dir, table_references,
                   set_clauses, result_columns, order_by, where_clause,
                   limit, result>>

\* AliasOf taking the elided form too
AliasOfAny(alias) ==
    IF IsSome(alias) THEN Some(Unwrap(alias).name) ELSE None

\* alias.as_ref().and_then(|a| if let As::As(name) = a { Some } else { None })
AliasOf(alias) ==
    IF IsSome(alias) /\ Unwrap(alias).form = "As"
    THEN Some(Unwrap(alias).name)
    ELSE None

\* the body of `for rc in returning.iter_mut()`
ReturningColumn(rc, trefs) ==
    LET bound == Bind(rc.expr, trefs, None)
    IN  IF rc.kind = "Expr"
        THEN IF bound.ok
             THEN [ok |-> TRUE, expr |-> bound.expr,
                   column |-> Some([expr |-> bound.expr,
                                    alias |-> AliasOf(rc.alias),
                                    contains_aggregates |-> FALSE]),
                   err |-> None]
             ELSE [ok |-> FALSE, expr |-> bound.expr, column |-> None,
                   err |-> bound.err]
        ELSE [ok |-> FALSE, expr |-> rc.expr, column |-> None,
              err |-> Some(ErrOnlyExpressions)]

ReturningStep ==
    /\ pc = "returning"
    /\ IsSome(body.returning)
    /\ idx <= Len(Unwrap(body.returning))
    /\ LET r == ReturningColumn(Unwrap(body.returning)[idx],
                                table_references)
       IN  /\ body' = [body EXCEPT !.returning[1][idx].expr = r.expr]
           /\ IF r.ok
              THEN /\ result_columns' =
                        Append(result_columns, Unwrap(r.column))
                   /\ idx' = idx + 1
                   /\ UNCHANGED <<pc, result>>
              ELSE /\ Bail(Unwrap(r.err))
                   /\ UNCHANGED <<result_columns, idx>>
    /\ UNCHANGED <<xvars, schema, body0, table, iter_dir, table_references,
                   set_clauses, order_by, where_clause, limit>>

\* no RETURNING clause, or its last column is done
ReturningDone ==
    /\ pc = "returning"
    /\ \/ ~IsSome(body.returning)
       \/ IsSome(body.returning) /\ idx > Len(Unwrap(body.returning))
    /\ pc' = "order_by"
    /\ UNCHANGED <<xvars, schema, body, body0, table, iter_dir, table_references,
                   set_clauses, result_columns, order_by, where_clause,
                   limit, idx, result>>

\* (o.expr.clone(), direction), Ascending when the term has no order
OrderByOf(ob) ==
    IF IsSome(ob)
    THEN Some([k \in 1..Len(Unwrap(ob)) |->
                 [expr |-> Unwrap(ob)[k].expr,
                  dir |-> IF Unwrap(ob)[k].order = Some("Desc")
                          THEN "Descending" ELSE "Ascending"]])
    ELSE None

CaptureOrderBy ==
    /\ pc = "order_by"
    /\ order_by' = OrderByOf(body.order_by)
    /\ pc' = "where"
    /\ UNCHANGED <<xvars, schema, body, body0, table, iter_dir, table_references,
                   set_clauses, result_columns, where_clause, limit, idx,
                   result>>

\* WhereStep binding the statement's own expression instead of a clone
WhereStepInPlace(stmt, trefs, rcs) ==
    LET r == parse_where(stmt.where_clause, trefs, Some(rcs))
        w == IF IsSome(stmt.where_clause)
             THEN Some(Bind(Unwrap(stmt.where_clause), trefs, Some(rcs)).expr)
             ELSE None
    IN  [ok |-> r.ok, exprs |-> r.exprs, err |-> r.err,
         stmt |-> [stmt EXCEPT !.where_clause = w]]

\* parse_where(body.where_clause.as_ref().map(|w| *w.clone()), ..)?: the
\* statement's own WHERE expression is not the one handed to the binder
WhereStep(stmt, trefs, rcs) ==
    LET r == parse_where(stmt.where_clause, trefs, Some(rcs))
    IN  [ok |-> r.ok, exprs |-> r.exprs, err |-> r.err, stmt |-> stmt]

ParseWhere ==
    /\ pc = "where"
    /\ LET r == WhereStep(body, table_references, result_columns)
       IN  /\ body' = r.stmt
           /\ IF r.ok
              THEN /\ where_clause' = r.exprs
                   /\ pc' = "limit"
                   /\ UNCHANGED result
              ELSE /\ Bail(Unwrap(r.err))
                   /\ UNCHANGED where_clause
    /\ UNCHANGED <<xvars, schema, body0, table, iter_dir, table_references,
                   set_clauses, result_columns, order_by, limit, idx>>

\* LimitOffset defaulting to the offset parse_limit gives a bare LIMIT
LimitOffsetDefault(l) ==
    IF IsSome(l) THEN parse_limit(Unwrap(l))
    ELSE [ok |-> TRUE, limit |-> None, offset |-> Some(0), err |-> None]

\* body.limit.as_ref().map(|l| parse_limit(l)).unwrap_or(Ok((None, None)))?
LimitOffset(l) ==
    IF IsSome(l) THEN parse_limit(Unwrap(l))
    ELSE [ok |-> TRUE, limit |-> None, offset |-> None, err |-> None]

ParseLimit ==
    /\ pc = "limit"
    /\ LET r == LimitOffset(body.limit)
       IN  IF r.ok
           THEN /\ limit' = [limit |-> r.limit, offset |-> r.offset]
                /\ pc' = "assemble"
                /\ UNCHANGED result
           ELSE /\ Bail(Unwrap(r.err))
                /\ UNCHANGED limit
    /\ UNCHANGED <<xvars, schema, body, body0, table, iter_dir, table_references,
                   set_clauses, result_columns, order_by, where_clause, idx>>

\* Ok(Plan::Update(UpdatePlan { .. }))
UpdatePlan(trefs, sets, wheres, rcs, ob, lim) ==
    [table_references |-> trefs,
     set_clauses |-> sets,
     where_clause |-> wheres,
     returning |-> Some(rcs),
     order_by |-> ob,
     limit |-> lim.limit,
     offset |-> lim.offset,
     contains_constant_false_condition |-> FALSE]

Assemble ==
    /\ pc = "assemble"
    /\ result' = Ok(UpdatePlan(table_references, set_clauses, where_clause,
                               result_columns, order_by, limit))
    /\ pc' = "done"
    /\ UNCHANGED <<xvars, schema, body, body0, table, iter_dir, table_references,
                   set_clauses, result_columns, order_by, where_clause,
                   limit, idx>>

Next ==
    \/ CheckWith
    \/ CheckOrConflict
    \/ LookupTable
    \/ CheckBtree
    \/ ScanDirection
    \/ BuildTableReferences
    \/ SetStep
    \/ SetsCollected
    \/ ReturningStep
    \/ ReturningDone
    \/ CaptureOrderBy
    \/ ParseWhere
    \/ ParseLimit
    \/ Assemble

Spec == Init /\ [][Next]_vars

----------------------------------------------------------------------------
(* The program of the doc comment: update t set a = 100 where b = 5 *)

Insn(op, p1, p2, p3, p5) ==
    [op |-> op, p1 |-> p1, p2 |-> p2, p3 |-> p3, p5 |-> p5]

\* the listing with column 1 copied from column 0 at address 10
ProgramWrongColumn ==
    << Insn("Init", 0, 16, 0, 0),
       Insn("Null", 0, 1, 2, 0),
       Insn("Noop", 1, 0, 1, 0),
       Insn("OpenWrite", 0, 2, 0, 0),
       Insn("Rewind", 0, 15, 0, 0),
       Insn("Column", 0, 1, 6, 0),
       Insn("Ne", 7, 14, 6, 81),
       Insn("Rowid", 0, 2, 0, 0),
       Insn("IsNull", 2, 15, 0, 0),
       Insn("Integer", 100, 3, 0, 0),
       Insn("Column", 0, 0, 4, 0),
       Insn("Column", 0, 2, 5, 0),
       Insn("MakeRecord", 3, 3, 1, 0),
       Insn("Insert", 0, 1, 2, 7),
       Insn("Next", 0, 5, 0, 1),
       Insn("Halt", 0, 0, 0, 0),
       Insn("Transaction", 0, 1, 1, 1),
       Insn("Integer", 5, 7, 0, 0),
       Insn("Goto", 0, 1, 0, 0) >>

\* addresses 0..18 of the listing; Program[k + 1] is the insn at address k
Program ==
    << Insn("Init", 0, 16, 0, 0),
       Insn("Null", 0, 1, 2, 0),
       Insn("Noop", 1, 0, 1, 0),
       Insn("OpenWrite", 0, 2, 0, 0),
       Insn("Rewind", 0, 15, 0, 0),
       Insn("Column", 0, 1, 6, 0),
       Insn("Ne", 7, 14, 6, 81),
       Insn("Rowid", 0, 2, 0, 0),
       Insn("IsNull", 2, 15, 0, 0),
       Insn("Integer", 100, 3, 0, 0),
       Insn("Column", 0, 1, 4, 0),
       Insn("Column", 0, 2, 5, 0),
       Insn("MakeRecord", 3, 3, 1, 0),
       Insn("Insert", 0, 1, 2, 7),
       Insn("Next", 0, 5, 0, 1),
       Insn("Halt", 0, 0, 0, 0),
       Insn("Transaction", 0, 1, 1, 1),
       Insn("Integer", 5, 7, 0, 0),
       Insn("Goto", 0, 1, 0, 0) >>

Fetch == Program[addr + 1]
At(op) == ~halted /\ Fetch.op = op

\* rows of t(a, b, c): NULL is None, an integer n is Some(n)
RowData ==
    {<<va, vb, vc>> : va \in {None, Some(1)},
                      vb \in {None, Some(5), Some(6)},
                      vc \in {None, Some(9)}}
Tables ==
    {[k \in 1..Len(d) |-> [rowid |-> k, data |-> d[k]]] :
        d \in SeqsBetween(RowData, 0, MaxRows)}

InitExec ==
    /\ schema = SchemaWith(<<Some(NameA), Some(NameB), Some(<<"c">>)>>)
    /\ body = [with |-> None, or_conflict |-> None, tbl_name |-> NameT,
               sets |-> <<Assignment(<<NameA>>, Lit(100))>>,
               where_clause |-> Some(Id(NameB)), returning |-> None,
               order_by |-> None, limit |-> None]
    /\ body0 = body
    /\ pc = "done"
    /\ table = None
    /\ iter_dir = "Forwards"
    /\ table_references = <<>>
    /\ set_clauses = <<>>
    /\ result_columns = <<>>
    /\ order_by = None
    /\ where_clause = <<>>
    /\ limit = [limit |-> None, offset |-> None]
    /\ idx = 1
    /\ result = Running
    /\ rows \in Tables
    /\ rows0 = rows
    /\ addr = 0
    /\ reg = [k \in 1..7 |-> None]
    /\ cursor = 0
    /\ halted = FALSE

\* Init: Start at p2
OpInit ==
    /\ At("Init")
    /\ addr' = Fetch.p2
    /\ UNCHANGED <<pvars, rows, rows0, reg, cursor, halted>>

\* Null: r[p2..p3]=NULL
OpNull ==
    /\ At("Null")
    /\ reg' = [k \in DOMAIN reg |->
                 IF k \in Fetch.p2..Fetch.p3 THEN None ELSE reg[k]]
    /\ addr' = addr + 1
    /\ UNCHANGED <<pvars, rows, rows0, cursor, halted>>

OpNoop ==
    /\ At("Noop")
    /\ addr' = addr + 1
    /\ UNCHANGED <<pvars, rows, rows0, reg, cursor, halted>>

\* OpenWrite: cursor p1 on the table's root, not yet on a row
OpOpenWrite ==
    /\ At("OpenWrite")
    /\ cursor' = 0
    /\ addr' = addr + 1
    /\ UNCHANGED <<pvars, rows, rows0, reg, halted>>

\* Rewind: to the first row, or to p2 when the table is empty
OpRewind ==
    /\ At("Rewind")
    /\ IF rows = <<>>
       THEN addr' = Fetch.p2 /\ UNCHANGED cursor
       ELSE addr' = addr + 1 /\ cursor' = 1
    /\ UNCHANGED <<pvars, rows, rows0, reg, halted>>

\* Column: r[p3]= cursor p1 column p2
OpColumn ==
    /\ At("Column")
    /\ reg' = [reg EXCEPT ![Fetch.p3] = rows[cursor].data[Fetch.p2 + 1]]
    /\ addr' = addr + 1
    /\ UNCHANGED <<pvars, rows, rows0, cursor, halted>>

\* Ne: if r[p3]!=r[p1] goto p2; with bit 16 of p5 a NULL operand jumps too
OpNe ==
    /\ At("Ne")
    /\ LET jumpifnull == (Fetch.p5 \div 16) % 2 = 1
           null == reg[Fetch.p3] = None \/ reg[Fetch.p1] = None
       IN  IF \/ null /\ jumpifnull
              \/ ~null /\ reg[Fetch.p3] # reg[Fetch.p1]
           THEN addr' = Fetch.p2
           ELSE addr' = addr + 1
    /\ UNCHANGED <<pvars, rows, rows0, reg, cursor, halted>>

\* Rowid: r[p2]= rowid of p1
OpRowid ==
    /\ At("Rowid")
    /\ reg' = [reg EXCEPT ![Fetch.p2] = Some(rows[cursor].rowid)]
    /\ addr' = addr + 1
    /\ UNCHANGED <<pvars, rows, rows0, cursor, halted>>

\* IsNull: if r[p1]==NULL goto p2
OpIsNull ==
    /\ At("IsNull")
    /\ addr' = IF reg[Fetch.p1] = None THEN Fetch.p2 ELSE addr + 1
    /\ UNCHANGED <<pvars, rows, rows0, reg, cursor, halted>>

\* Integer: r[p2]=p1
OpInteger ==
    /\ At("Integer")
    /\ reg' = [reg EXCEPT ![Fetch.p2] = Some(Fetch.p1)]
    /\ addr' = addr + 1
    /\ UNCHANGED <<pvars, rows, rows0, cursor, halted>>

\* MakeRecord: r[p3]=mkrec(r[p1..p1+p2-1])
OpMakeRecord ==
    /\ At("MakeRecord")
    /\ reg' = [reg EXCEPT ![Fetch.p3] =
                 [k \in 1..Fetch.p2 |-> reg[Fetch.p1 + k - 1]]]
    /\ addr' = addr + 1
    /\ UNCHANGED <<pvars, rows, rows0, cursor, halted>>

\* the rows with (key, data) written: in place when the key exists, else in
\* key order
Upsert(rs, key, data) ==
    IF \E k \in 1..Len(rs) : rs[k].rowid = key
    THEN [k \in 1..Len(rs) |->
            IF rs[k].rowid = key THEN [rowid |-> key, data |-> data]
            ELSE rs[k]]
    ELSE LET below == Cardinality({k \in 1..Len(rs) : rs[k].rowid < key})
         IN  SubSeq(rs, 1, below) \o <<[rowid |-> key, data |-> data]>>
             \o SubSeq(rs, below + 1, Len(rs))

\* Insert: intkey=r[p3] data=r[p2]; the cursor is left on the written row
OpInsert ==
    /\ At("Insert")
    /\ LET key == Unwrap(reg[Fetch.p3])
       IN  /\ rows' = Upsert(rows, key, reg[Fetch.p2])
           /\ cursor' = CHOOSE k \in 1..Len(rows') : rows'[k].rowid = key
    /\ addr' = addr + 1
    /\ UNCHANGED <<pvars, rows0, reg, halted>>

\* Next: to the following row and p2, or fall through after the last row
OpNext ==
    /\ At("Next")
    /\ IF cursor < Len(rows)
       THEN cursor' = cursor + 1 /\ addr' = Fetch.p2
       ELSE addr' = addr + 1 /\ UNCHANGED cursor
    /\ UNCHANGED <<pvars, rows, rows0, reg, halted>>

OpHalt ==
    /\ At("Halt")
    /\ halted' = TRUE
    /\ UNCHANGED <<pvars, rows, rows0, addr, reg, cursor>>

OpTransaction ==
    /\ At("Transaction")
    /\ addr' = addr + 1
    /\ UNCHANGED <<pvars, rows, rows0, reg, cursor, halted>>

OpGoto ==
    /\ At("Goto")
    /\ addr' = Fetch.p2
    /\ UNCHANGED <<pvars, rows, rows0, reg, cursor, halted>>

NextExec ==
    \/ OpInit
    \/ OpNull
    \/ OpNoop
    \/ OpOpenWrite
    \/ OpRewind
    \/ OpColumn
    \/ OpNe
    \/ OpRowid
    \/ OpIsNull
    \/ OpInteger
    \/ OpMakeRecord
    \/ OpInsert
    \/ OpNext
    \/ OpHalt
    \/ OpTransaction
    \/ OpGoto

SpecExec == InitExec /\ [][NextExec]_vars

----------------------------------------------------------------------------
(* What the statement and the catalog are, independent of the builder *)

Done == pc = "done"
Succeeded == result.tag = "Ok"
Failed == result.tag = "Err"
ThePlan == Unwrap(result.plan)

Target == get_table(schema, body0.tbl_name)
Declared == Unwrap(Target).columns
Scope == <<[table |-> Unwrap(Target)]>>

Matches(col, ident) ==
    IsSome(col) /\ eq_ignore_ascii_case(Unwrap(col), ident)
TargetName(set) == normalize_ident(set.col_names[1])
TargetFound(set) ==
    \E k \in 1..Len(Declared) : Matches(Declared[k], TargetName(set))
Least(S) == CHOOSE k \in S : \A m \in S : k <= m

HasWith == IsSome(body0.with)
HasOrConflict == IsSome(body0.or_conflict)
TableMissing == ~IsSome(Target)
TableNotBtree == IsSome(Target) /\ Unwrap(Target).kind # "BTree"
UnmatchedSets == {k \in 1..Len(body0.sets) : ~TargetFound(body0.sets[k])}
Returned == IF IsSome(body0.returning) THEN Unwrap(body0.returning) ELSE <<>>
BadReturning ==
    {k \in 1..Len(Returned) :
        \/ Returned[k].kind # "Expr"
        \/ ~Bind(Returned[k].expr, Scope, None).ok}
ExplicitAlias(rc) ==
    IF IsSome(rc.alias) /\ Unwrap(rc.alias).form = "As"
    THEN Some(Unwrap(rc.alias).name) ELSE None
Projection ==
    [k \in 1..Len(Returned) |->
        [expr |-> Bind(Returned[k].expr, Scope, None).expr,
         alias |-> ExplicitAlias(Returned[k]),
         contains_aggregates |-> FALSE]]
WhereOutcome == parse_where(body0.where_clause, Scope, Some(Projection))
LimitOutcome == parse_limit(Unwrap(body0.limit))

\* the error of the first violated rule, in the order of the steps
FirstViolation ==
    IF HasWith THEN Some(ErrWith)
    ELSE IF HasOrConflict THEN Some(ErrOrConflict)
    ELSE IF TableMissing THEN Some(ErrNoSuchTable(body0.tbl_name))
    ELSE IF TableNotBtree THEN Some(ErrNotBtree(body0.tbl_name))
    ELSE IF UnmatchedSets # {}
    THEN Some(ErrColumnNotFound(
                TargetName(body0.sets[Least(UnmatchedSets)]), body0.tbl_name))
    ELSE IF BadReturning # {}
    THEN IF Returned[Least(BadReturning)].kind # "Expr"
         THEN Some(ErrOnlyExpressions)
         ELSE Bind(Returned[Least(BadReturning)].expr, Scope, None).err
    ELSE IF ~WhereOutcome.ok THEN WhereOutcome.err
    ELSE IF IsSome(body0.limit) /\ ~LimitOutcome.ok THEN LimitOutcome.err
    ELSE None

TableResolved == ~HasWith /\ ~HasOrConflict /\ ~TableMissing /\ ~TableNotBtree

----------------------------------------------------------------------------
(* Claims *)

\* C1: a finished call reports the error of the first violated rule in the
\* step order WITH, ON CONFLICT, table not found, not a B-tree, SET target
\* not found, RETURNING, WHERE, LIMIT; WITH and ON CONFLICT are reported
\* whether or not the table exists, and WITH wins over ON CONFLICT.
C1_FirstViolatedRuleWins ==
    Done =>
        /\ IsSome(FirstViolation) => result = Err(Unwrap(FirstViolation))
        /\ HasWith => result = Err(ErrWith)
        /\ (~HasWith /\ HasOrConflict) => result = Err(ErrOrConflict)

C1_Witness ==
    /\ Done
    /\ HasWith /\ HasOrConflict /\ TableMissing
    /\ result = Err(ErrWith)

\* C2: without WITH and ON CONFLICT, a table absent from the catalog gives
\* the table-not-found error naming it, a table that is not a B-tree gives
\* the distinct not-a-btree error; no plan is returned and nothing of the
\* plan is ever built for such a table.
C2_TableErrors ==
    (~HasWith /\ ~HasOrConflict /\ (TableMissing \/ TableNotBtree)) =>
        /\ ~Succeeded
        /\ table_references = <<>> /\ set_clauses = <<>>
        /\ Done =>
            /\ result.plan = None
            /\ TableMissing =>
                  result.err = Some(ErrNoSuchTable(body0.tbl_name))
            /\ TableNotBtree =>
                  result.err = Some(ErrNotBtree(body0.tbl_name))
            /\ ErrNoSuchTable(body0.tbl_name) # ErrNotBtree(body0.tbl_name)

C2_Witness ==
    /\ Done
    /\ ~HasWith /\ ~HasOrConflict /\ TableNotBtree
    /\ result = Err(ErrNotBtree(body0.tbl_name))

\* C3: a returned plan has one set clause per SET assignment, in the order
\* of the assignments, duplicates kept; each column_index is the lowest
\* 0-based index of a declared column matching the normalized target name
\* ignoring case.
C3_SetClauses ==
    Succeeded =>
        /\ Len(ThePlan.set_clauses) = Len(body0.sets)
        /\ \A k \in 1..Len(body0.sets) :
              LET ci == ThePlan.set_clauses[k].column_index
                  name == TargetName(body0.sets[k])
              IN  /\ ci \in 0..(Len(Declared) - 1)
                  /\ Matches(Declared[ci + 1], name)
                  /\ \A j \in 0..(ci - 1) : ~Matches(Declared[j + 1], name)
                  /\ ThePlan.set_clauses[k].expr = body.sets[k].expr

C3_Witness ==
    /\ Succeeded
    /\ Len(body0.sets) = 2
    /\ ThePlan.set_clauses[1].column_index = ThePlan.set_clauses[2].column_index
    /\ ThePlan.set_clauses[1].expr # ThePlan.set_clauses[2].expr
    /\ Cardinality({k \in 1..Len(Declared) :
                      Matches(Declared[k], TargetName(body0.sets[1]))}) = 2

\* C4: when the SET step is reached and some target has no matching
\* column, the call fails with the column-not-found error naming the
\* normalized column and the table, returns no plan, and no assignment
\* after the first unmatched one is ever bound.
C4_UnknownSetTarget ==
    (TableResolved /\ UnmatchedSets # {}) =>
        LET first == Least(UnmatchedSets)
        IN  /\ ~Succeeded
            /\ \A j \in (first + 1)..Len(body0.sets) :
                  body.sets[j] = body0.sets[j]
            /\ Len(set_clauses) < first
            /\ Done =>
                /\ result.plan = None
                /\ result.err = Some(ErrColumnNotFound(
                       TargetName(body0.sets[first]), body0.tbl_name))

C4_Witness ==
    /\ Done /\ Failed
    /\ TableResolved
    /\ UnmatchedSets # {}
    /\ Least(UnmatchedSets) < Len(body0.sets)
    /\ LET last == body0.sets[Len(body0.sets)]
       IN  TargetFound(last) /\ Bind(last.expr, Scope, None).expr # last.expr

\* C5: the scan direction of the plan's table reference is Backwards
\* exactly when ORDER BY is present, non-empty and its first term is
\* explicitly DESC, and Forwards otherwise, whatever the later terms are.
C5_ScanDirection ==
    Succeeded =>
        /\ Len(ThePlan.table_references) = 1
        /\ ThePlan.table_references[1].op.iter_dir =
              IF /\ IsSome(body0.order_by)
                 /\ Unwrap(body0.order_by) # <<>>
                 /\ Unwrap(body0.order_by)[1].order = Some("Desc")
              THEN "Backwards" ELSE "Forwards"

C5_Witness ==
    /\ Succeeded
    /\ IsSome(body0.order_by)
    /\ Len(Unwrap(body0.order_by)) = 2
    /\ Unwrap(body0.order_by)[1].order = Some("Desc")
    /\ Unwrap(body0.order_by)[2].order = Some("Asc")
    /\ ThePlan.table_references[1].op.iter_dir = "Backwards"

\* C6: the plan's returning is always present: empty without a RETURNING
\* clause, otherwise one entry per result column in order, with an alias
\* only for the explicit AS form; a result column that is not a plain
\* expression makes the call fail with no plan.
C6_Returning ==
    Done =>
        /\ Succeeded =>
              /\ IsSome(ThePlan.returning)
              /\ ~IsSome(body0.returning) => ThePlan.returning = Some(<<>>)
              /\ Len(Unwrap(ThePlan.returning)) = Len(Returned)
              /\ \A k \in 1..Len(Returned) :
                    /\ Unwrap(ThePlan.returning)[k].alias =
                          ExplicitAlias(Returned[k])
                    /\ Unwrap(ThePlan.returning)[k].expr =
                          Unwrap(body.returning)[k].expr
        /\ (\E k \in 1..Len(Returned) : Returned[k].kind # "Expr") =>
              Failed /\ result.plan = None

C6_Witness ==
    /\ Succeeded
    /\ Len(Returned) = 2
    /\ IsSome(Unwrap(ThePlan.returning)[1].alias)
    /\ IsSome(Returned[2].alias)
    /\ ~IsSome(Unwrap(ThePlan.returning)[2].alias)

SetBindFailures ==
    {k \in 1..Len(body0.sets) : ~Bind(body0.sets[k].expr, Scope, None).ok}
ReturningBindFailures ==
    {k \in 1..Len(Returned) :
        /\ Returned[k].kind = "Expr"
        /\ ~Bind(Returned[k].expr, Scope, None).ok
        /\ \A j \in 1..(k - 1) : j \notin BadReturning}

\* C7: a binder failure on a SET right-hand side never makes the call
\* fail: a failed call failed for a violated rule, and a returned plan
\* holds the assignment; a binder failure on a RETURNING expression that
\* is reached makes the call fail with the binder's error and no plan.
C7_BindingAsymmetry ==
    (Done /\ TableResolved) =>
        /\ SetBindFailures # {} =>
              /\ Failed => result.err = FirstViolation
              /\ ~IsSome(FirstViolation) => Succeeded
              /\ Succeeded =>
                    \A k \in SetBindFailures :
                        /\ Len(ThePlan.set_clauses) >= k
                        /\ ThePlan.set_clauses[k].expr = body0.sets[k].expr
        /\ (UnmatchedSets = {} /\ ReturningBindFailures # {}) =>
              /\ result.plan = None
              /\ result.err =
                    Bind(Returned[Least(ReturningBindFailures)].expr,
                         Scope, None).err

C7_WitnessTolerated ==
    /\ Done /\ Succeeded
    /\ SetBindFailures # {}
    /\ Len(ThePlan.set_clauses) = Len(body0.sets)

C7_Witness ==
    /\ Done /\ Failed
    /\ TableResolved /\ UnmatchedSets = {}
    /\ ReturningBindFailures # {}
    /\ SetBindFailures # {}

\* C8: a returned plan has exactly one table reference, of the B-tree
\* variant, a Scan with no index and no join info; its
\* contains_constant_false_condition is false; without a LIMIT clause its
\* limit and offset are both absent.
C8_PlanShape ==
    Succeeded =>
        /\ Len(ThePlan.table_references) = 1
        /\ ThePlan.table_references[1].table.kind = "BTree"
        /\ ThePlan.table_references[1].table = Unwrap(Target)
        /\ ThePlan.table_references[1].op.kind = "Scan"
        /\ ThePlan.table_references[1].op.index = None
        /\ ThePlan.table_references[1].join_info = None
        /\ ThePlan.contains_constant_false_condition = FALSE
        /\ ~IsSome(body0.limit) =>
              ThePlan.limit = None /\ ThePlan.offset = None

C8_Witness ==
    /\ Succeeded
    /\ ~IsSome(body0.limit)
    /\ ThePlan.limit = None /\ ThePlan.offset = None
    /\ ThePlan.where_clause # <<>>

WhereTrue(row) == row.data[2] = Some(5)
Rewritten(row) ==
    [rowid |-> row.rowid, data |-> <<Some(100), row.data[2], row.data[3]>>]
\* the loop body has run to its end for row k
Visited(k) == k < cursor \/ (k = cursor /\ addr \in {14, 15})

\* C9: in the row-at-a-time program, a visited row whose WHERE clause is
\* not true is left as stored; one whose WHERE clause is true is written
\* back under its own key with the SET column replaced by the evaluated
\* value and every other column as stored; the scan visits every row.
C9_RowRewrite ==
    /\ Len(rows) = Len(rows0)
    /\ \A k \in 1..Len(rows0) :
          /\ rows[k].rowid = rows0[k].rowid
          /\ rows[k] = IF Visited(k) /\ WhereTrue(rows0[k])
                       THEN Rewritten(rows0[k]) ELSE rows0[k]
    /\ halted => \A k \in 1..Len(rows0) : Visited(k)

C9_Witness ==
    /\ halted
    /\ Len(rows0) = 2
    /\ WhereTrue(rows0[1]) /\ rows[1] # rows0[1]
    /\ rows0[1].data[3] # None
    /\ ~WhereTrue(rows0[2]) /\ rows0[2].data[2] # None

\* C10: the call changes the statement only in SET right-hand sides and
\* RETURNING expressions it has reached: WITH, ON CONFLICT, table name,
\* WHERE, ORDER BY and LIMIT/OFFSET never change, nor do SET targets and
\* RETURNING aliases; a call that fails at the WITH, ON CONFLICT,
\* table-not-found or not-a-btree checks leaves the statement as it was.
C10_StatementFrame ==
    /\ body.with = body0.with
    /\ body.or_conflict = body0.or_conflict
    /\ body.tbl_name = body0.tbl_name
    /\ body.where_clause = body0.where_clause
    /\ body.order_by = body0.order_by
    /\ body.limit = body0.limit
    /\ Len(body.sets) = Len(body0.sets)
    /\ \A k \in 1..Len(body0.sets) :
          /\ body.sets[k].col_names = body0.sets[k].col_names
          /\ k > Len(set_clauses) => body.sets[k] = body0.sets[k]
    /\ IsSome(body.returning) = IsSome(body0.returning)
    /\ \A k \in 1..Len(Returned) :
          /\ Unwrap(body.returning)[k].kind = Returned[k].kind
          /\ Unwrap(body.returning)[k].alias = Returned[k].alias
          /\ k > Len(result_columns) + 1 =>
                Unwrap(body.returning)[k] = Returned[k]
    /\ pc \in {"with", "or_conflict", "get_table", "btree", "iter_dir",
               "table_references", "sets"} => body.returning = body0.returning
    /\ (TableResolved /\ UnmatchedSets # {}) =>
          body.returning = body0.returning
    /\ ~TableResolved => body = body0

C10_Witness ==
    /\ Done /\ Succeeded
    /\ IsSome(body0.where_clause)
    /\ ThePlan.where_clause # <<Unwrap(body0.where_clause)>>
    /\ body.where_clause = body0.where_clause
    /\ body.sets # body0.sets
    /\ IsSome(body0.order_by)

====
